---- MODULE Spec2Model ----
(***************************************************************************)
(* Minesweeper with adjacency variants (src/src/main.rs).                  *)
(*                                                                         *)
(* The state is the Minesweeper struct (width, height, mines,              *)
(* open_squares, flagged_squares, all_squares, state, variant) together    *)
(* with the position of main(): constructing the board (Minesweeper::new), *)
(* at the head of the play loop, between the move and determine_win, or    *)
(* after the loop.                                                         *)
(***************************************************************************)
EXTENDS Integers, Sequences, FiniteSets, TLC

VARIABLES
    width,            \* Minesweeper.width  (settings.board_width)
    height,           \* Minesweeper.height (settings.board_height)
    num_mines,        \* settings.num_mines
    variant,          \* Minesweeper.variant
    mines,            \* Minesweeper.mines (the local set while new() samples)
    open_squares,     \* Minesweeper.open_squares
    flagged_squares,  \* Minesweeper.flagged_squares
    all_squares,      \* Minesweeper.all_squares
    state,            \* Minesweeper.state
    pc,               \* position of main(): "new", "play", "open", "check", "done"
    stack,            \* the activations of open() in progress, outermost first
    move,             \* the locals (x, y), move_type of the current loop iteration,
                      \* with what the targeted cell and the board were before the move
    call,             \* the last call of a function observed on its own: its
                      \* name, its arguments and what it returned
    screen            \* the squares of the board as last displayed

vars == <<width, height, num_mines, variant, mines, open_squares,
          flagged_squares, all_squares, state, pc, stack, move, call, screen>>

\* Bounds of the model: boards at most MaxWidth wide and MaxHeight high with
\* at most MaxCells cells, at most MaxMines requested mines, at most MaxFlags
\* flags on the board at a time.
MaxWidth == 3
MaxHeight == 3
MaxCells == 6
MaxMines == 2
MaxFlags == 1

Variants == {"Normal", "FarNormal", "KnightPaths", "BlindUp", "BlindDown",
             "BlindLeft", "BlindRight", "Orthogonal", "FarOrthogonal",
             "Diagonal", "FarDiagonal", "Doubled"}

GameStates == {"Playing", "Won", "Lost"}

\* No move in progress (before the first move and after determine_win).
NoCall == [fn |-> "None"]

NoMove == [type |-> "None", pos |-> <<0, 0>>, was_flagged |-> FALSE,
           open_before |-> {}]

\* The positions of a w x h board.
Grid(w, h) == (0 .. w - 1) \X (0 .. h - 1)

----------------------------------------------------------------------------
(* Neighbour geometry *)

\* The offsets of FarNormal: x in -2..2 outermost, y in -2..2 innermost.
FarNormalDirs == [i \in 1 .. 25 |-> <<((i - 1) \div 5) - 2, ((i - 1) % 5) - 2>>]

\* The offset list of a variant (the match in neighbors()).
dirs(v) ==
    CASE v = "Normal" ->
           << <<-1, 0>>, <<1, 0>>, <<0, -1>>, <<0, 1>>,
              <<-1, -1>>, <<-1, 1>>, <<1, -1>>, <<1, 1>> >>
      [] v = "FarNormal" -> FarNormalDirs
      [] v = "KnightPaths" ->
           << <<-1, -2>>, <<-1, 2>>, <<1, -2>>, <<1, 2>>,
              <<-2, -1>>, <<-2, 1>>, <<2, -1>>, <<2, 1>> >>
      [] v = "BlindUp" ->
           << <<-1, 0>>, <<1, 0>>, <<0, 1>>,
              <<-1, -1>>, <<-1, 1>>, <<1, -1>>, <<1, 1>> >>
      [] v = "BlindDown" ->
           << <<-1, 0>>, <<1, 0>>, <<0, -1>>,
              <<-1, -1>>, <<-1, 1>>, <<1, -1>>, <<1, 1>> >>
      [] v = "BlindLeft" ->
           << <<1, 0>>, <<0, -1>>, <<0, 1>>,
              <<-1, -1>>, <<-1, 1>>, <<1, -1>>, <<1, 1>> >>
      [] v = "BlindRight" ->
           << <<-1, 0>>, <<0, -1>>, <<0, 1>>,
              <<-1, -1>>, <<-1, 1>>, <<1, -1>>, <<1, 1>> >>
      [] v = "Orthogonal" ->
           << <<-1, 0>>, <<1, 0>>, <<0, -1>>, <<0, 1>> >>
      [] v = "FarOrthogonal" ->
           << <<-2, 0>>, <<2, 0>>, <<0, -2>>, <<0, 2>>,
              <<-1, 0>>, <<1, 0>>, <<0, -1>>, <<0, 1>> >>
      [] v = "Diagonal" ->
           << <<-1, -1>>, <<1, 1>>, <<-1, 1>>, <<1, -1>> >>
      [] v = "FarDiagonal" ->
           << <<-2, -2>>, <<2, 2>>, <<-2, 2>>, <<2, -2>>,
              <<-1, -1>>, <<1, 1>>, <<-1, 1>>, <<1, -1>> >>
      [] v = "Doubled" ->
           << <<-1, 0>>, <<1, 0>>, <<0, -1>>, <<0, 1>>,
              <<-1, 0>>, <<1, 0>>, <<0, -1>>, <<0, 1>>,
              <<-1, -1>>, <<-1, 1>>, <<1, -1>>, <<1, 1>> >>

\* neighbors(): the offsets applied in order, results outside the board dropped.
neighbors(x, y) ==
    LET ds == dirs(variant)
        cand == [i \in 1 .. Len(ds) |-> <<x + ds[i][1], y + ds[i][2]>>]
        inside(p) == ~(p[1] < 0 \/ p[1] >= width \/ p[2] < 0 \/ p[2] >= height)
    IN  SelectSeq(cand, inside)

\* Variant of mines_near: the number of distinct neighbouring positions that
\* are mines.
mines_near_distinct(x, y) ==
    LET ns == neighbors(x, y)
    IN  Cardinality({ns[i] : i \in 1 .. Len(ns)} \cap mines)

\* mines_near(): the number of neighbour-list entries that are mines.
\* ms is self.mines.
mines_near_of(ms, x, y) ==
    LET is_mine(p) == p \in ms
    IN  Len(SelectSeq(neighbors(x, y), is_mine))

mines_near(x, y) == mines_near_of(mines, x, y)

----------------------------------------------------------------------------
(* open(): g is the part of the struct open() writes,                      *)
(* [open_squares, state]; mines and flagged_squares are only read.         *)

\* Variant of already_open: the guard never holds.
already_open_never(g, x, y) == FALSE

\* Guard: the square has already been opened.
already_open(g, x, y) == <<x, y>> \in g.open_squares

\* Variant of is_flagged: the guard never holds.
is_flagged_never(x, y) == FALSE

\* Guard: the square is flagged.
is_flagged(x, y) == <<x, y>> \in flagged_squares

\* Variant of lose: the detonated mine is also recorded as open.
lose_inserting(g, x, y) ==
    [g EXCEPT !.state = "Lost", !.open_squares = @ \cup {<<x, y>>}]

\* Variant of lose: the state is left as it is.
lose_silently(g, x, y) == g

\* The square is a mine: the game is lost, nothing else changes.
lose(g, x, y) == [g EXCEPT !.state = "Lost"]

\* Variant of insert_open: the open squares are replaced by the square.
insert_open_replacing(g, x, y) == [g EXCEPT !.open_squares = {<<x, y>>}]

\* The square is safe: it joins the open squares.
insert_open(g, x, y) == [g EXCEPT !.open_squares = @ \cup {<<x, y>>}]

\* Variant of has_mines_near: >= for >.
has_mines_near_or_none(x, y) == mines_near(x, y) >= 0

\* Variant of has_mines_near: < for >.
has_mines_near_never(x, y) == mines_near(x, y) < 0

\* Guard: the square has more than zero mines around it (no cascade).
has_mines_near(x, y) == mines_near(x, y) > 0

\* One activation of open(x, y) up to its for loop: the struct it leaves and
\* whether it goes on to the loop over its neighbours (cascade) or returns.
open_enter(g, x, y) ==
    IF already_open(g, x, y) THEN [g |-> g, cascade |-> FALSE]
    ELSE IF is_flagged(x, y) THEN [g |-> g, cascade |-> FALSE]
    ELSE IF <<x, y>> \in mines THEN [g |-> lose(g, x, y), cascade |-> FALSE]
    ELSE [g |-> insert_open(g, x, y), cascade |-> ~has_mines_near(x, y)]

\* Variant of Frame: the loop position is one entry too far.
Frame_skipping(x, y, i) == [x |-> x, y |-> y, i |-> i + 1]

\* An activation of open(x, y) inside its for loop, about to visit the i-th
\* entry of neighbors(x, y).
Frame(x, y, i) == [x |-> x, y |-> y, i |-> i]

\* The activations left once every activation whose for loop is over has
\* returned: a finished loop is the end of open(), which returns to its caller.
RECURSIVE unwind(_)
unwind(st) ==
    IF st = <<>> THEN st
    ELSE LET top == st[Len(st)]
         IN  IF top.i > Len(neighbors(top.x, top.y))
             THEN unwind(SubSeq(st, 1, Len(st) - 1))
             ELSE st

\* Variant of flag: the guard on open squares is missing.
flag_ignoring_open(f, x, y) ==
    IF <<x, y>> \in f THEN f \ {<<x, y>>} ELSE f \cup {<<x, y>>}

\* Variant of flag: a flagged square stays flagged.
flag_only_adding(f, x, y) ==
    IF <<x, y>> \in open_squares THEN f ELSE f \cup {<<x, y>>}

\* flag(): f is flagged_squares; open_squares is only read.
flag(f, x, y) ==
    IF <<x, y>> \in open_squares THEN f
    ELSE IF <<x, y>> \in f THEN f \ {<<x, y>>}
    ELSE f \cup {<<x, y>>}

\* determine_win(): s is the state field.
determine_win(s) ==
    LET test_squares == open_squares \cup mines
    IN  IF test_squares = all_squares THEN "Won" ELSE s

----------------------------------------------------------------------------
(* Display: b is the struct as fmt() reads it,                              *)
(* [mines, open_squares, flagged_squares, state].                           *)

Board(ms, o, f, s) ==
    [mines |-> ms, open_squares |-> o, flagged_squares |-> f, state |-> s]

DecimalDigits == <<"0", "1", "2", "3", "4", "5", "6", "7", "8", "9">>

\* "{}" of a usize: its decimal digits.
RECURSIVE to_string(_)
to_string(n) ==
    IF n < 10 THEN <<DecimalDigits[n + 1]>>
    ELSE Append(to_string(n \div 10), DecimalDigits[(n % 10) + 1])

\* Variant of write_square: a mine is displayed whatever the state.
write_square_revealing(b, x, y) ==
    IF <<x, y>> \in b.flagged_squares /\ b.state # "Lost" THEN <<"F", " ">>
    ELSE IF <<x, y>> \in b.mines THEN <<"#", " ">>
    ELSE IF <<x, y>> \in b.open_squares
    THEN LET mines_value == mines_near_of(b.mines, x, y)
         IN  IF mines_value > 0 THEN Append(to_string(mines_value), " ")
             ELSE <<" ", " ">>
    ELSE <<".", " ">>

\* write_square(): the characters written for the square (x, y).
write_square(b, x, y) ==
    IF <<x, y>> \in b.flagged_squares /\ b.state # "Lost" THEN <<"F", " ">>
    ELSE IF <<x, y>> \in b.mines
    THEN IF b.state = "Lost" THEN <<"#", " ">> ELSE <<".", " ">>
    ELSE IF <<x, y>> \in b.open_squares
    THEN LET mines_value == mines_near_of(b.mines, x, y)
         IN  IF mines_value > 0 THEN Append(to_string(mines_value), " ")
             ELSE <<" ", " ">>
    ELSE <<".", " ">>

\* fmt(): the squares of the board, row y by row y and in each row column x
\* by column x (the borders depend on the width only and are left out).
fmt(b) ==
    [y \in 0 .. height - 1 |->
        [x \in 0 .. width - 1 |-> write_square(b, x, y)]]

----------------------------------------------------------------------------
(* main(): Minesweeper::new, then play() *)

Init ==
    /\ width \in 1 .. MaxWidth
    /\ height \in 1 .. MaxHeight
    /\ width * height <= MaxCells
    /\ num_mines \in 0 .. MaxMines
    /\ variant \in Variants
    /\ mines = {}
    /\ open_squares = {}
    /\ flagged_squares = {}
    /\ all_squares = {}
    /\ state = "None"
    /\ pc = "new"
    /\ stack = <<>>
    /\ move = NoMove
    /\ call = NoCall
    /\ screen = <<>>

\* One iteration of the sampling loop of new() in which random_range returns
\* the position mine: skip it if it is already a mine, insert it otherwise.
NewSampleOf(mine) ==
    /\ pc = "new"
    /\ Cardinality(mines) < num_mines
    /\ mines' = IF mine \in mines THEN mines ELSE mines \cup {mine}
    /\ UNCHANGED <<screen, call, width, height, num_mines, variant, open_squares,
                   flagged_squares, all_squares, state, pc, stack, move>>

\* Variant of NewSample: the x coordinate is drawn from 0 ..= width.
NewSample_wide == \E mine \in Grid(width + 1, height) : NewSampleOf(mine)

\* One iteration of the sampling loop of new(): random_range(0, width) and
\* random_range(0, height) return any position of the board.
NewSample == \E mine \in Grid(width, height) : NewSampleOf(mine)

\* Variant of NewDone: the loop stops one mine short.
NewDone_early ==
    /\ pc = "new"
    /\ ~(Cardinality(mines) + 1 < num_mines)
    /\ open_squares' = {}
    /\ flagged_squares' = {}
    /\ all_squares' = Grid(width, height)
    /\ state' = "Playing"
    /\ pc' = "play"
    /\ screen' = fmt(Board(mines, {}, {}, "Playing"))
    /\ UNCHANGED <<call, width, height, num_mines, variant, mines, stack, move>>

\* The sampling loop is over: the rest of the struct literal; then play()
\* displays the board and is at the head of its loop.
NewDone ==
    /\ pc = "new"
    /\ ~(Cardinality(mines) < num_mines)
    /\ open_squares' = {}
    /\ flagged_squares' = {}
    /\ all_squares' = Grid(width, height)
    /\ state' = "Playing"
    /\ pc' = "play"
    /\ screen' = fmt(Board(mines, {}, {}, "Playing"))
    /\ UNCHANGED <<call, width, height, num_mines, variant, mines, stack, move>>

\* The move of the given type at pos, with the board as it is when it starts.
MoveOf(type, pos) ==
    [type |-> type, pos |-> pos,
     was_flagged |-> pos \in flagged_squares,
     open_before |-> open_squares]

\* Loop iteration, MoveType::Open: self.open(x, y) is entered with the
\* player's validated position. Its cascade, if any, runs in OpenStep; when
\* open() has returned the board is displayed.
PlayOpen ==
    /\ pc = "play"
    /\ state = "Playing"
    /\ \E pos \in Grid(width, height) :
          LET r == open_enter([open_squares |-> open_squares, state |-> state],
                              pos[1], pos[2])
          IN  /\ open_squares' = r.g.open_squares
              /\ state' = r.g.state
              /\ stack' = IF r.cascade THEN unwind(<<Frame(pos[1], pos[2], 1)>>)
                                        ELSE <<>>
              /\ pc' = IF stack' = <<>> THEN "check" ELSE "open"
              /\ move' = MoveOf("Open", pos)
              /\ screen' = IF stack' = <<>>
                           THEN fmt(Board(mines, r.g.open_squares,
                                          flagged_squares, r.g.state))
                           ELSE screen
    /\ UNCHANGED <<call, width, height, num_mines, variant, mines,
                   flagged_squares, all_squares>>

\* One iteration of the for loop of the innermost activation of open(): the
\* recursive call on the next neighbour, up to the callee's own for loop.
OpenStep ==
    /\ pc = "open"
    /\ LET top == stack[Len(stack)]
           below == SubSeq(stack, 1, Len(stack) - 1)
           n == neighbors(top.x, top.y)[top.i]
           r == open_enter([open_squares |-> open_squares, state |-> state],
                           n[1], n[2])
           here == Append(below, Frame(top.x, top.y, top.i + 1))
           st == unwind(IF r.cascade THEN Append(here, Frame(n[1], n[2], 1))
                                     ELSE here)
       IN  /\ open_squares' = r.g.open_squares
           /\ state' = r.g.state
           /\ stack' = st
           /\ pc' = IF st = <<>> THEN "check" ELSE "open"
           /\ screen' = IF st = <<>>
                        THEN fmt(Board(mines, r.g.open_squares,
                                       flagged_squares, r.g.state))
                        ELSE screen
    /\ UNCHANGED <<call, width, height, num_mines, variant, mines,
                   flagged_squares, all_squares, move>>

\* Loop iteration, MoveType::Flag, and the display of the board.
PlayFlag ==
    /\ pc = "play"
    /\ state = "Playing"
    /\ \E pos \in Grid(width, height) :
          /\ pos \in flagged_squares \/ Cardinality(flagged_squares) < MaxFlags
          /\ flagged_squares' = flag(flagged_squares, pos[1], pos[2])
          /\ move' = MoveOf("Flag", pos)
          /\ screen' = fmt(Board(mines, open_squares,
                                 flag(flagged_squares, pos[1], pos[2]), state))
    /\ pc' = "check"
    /\ UNCHANGED <<call, width, height, num_mines, variant, mines,
                   open_squares, all_squares, state, stack>>

\* End of the loop iteration: determine_win().
PlayDetermineWin ==
    /\ pc = "check"
    /\ state' = determine_win(state)
    /\ pc' = "play"
    /\ move' = NoMove
    /\ UNCHANGED <<screen, call, width, height, num_mines, variant, mines,
                   open_squares, flagged_squares, all_squares, stack>>

\* The loop condition fails: play() returns.
PlayExit ==
    /\ pc = "play"
    /\ state # "Playing"
    /\ pc' = "done"
    /\ UNCHANGED <<screen, call, width, height, num_mines, variant, mines, open_squares,
                   flagged_squares, all_squares, state, stack, move>>

Next ==
    \/ NewSample
    \/ NewDone
    \/ PlayOpen
    \/ OpenStep
    \/ PlayFlag
    \/ PlayDetermineWin
    \/ PlayExit

Spec == Init /\ [][Next]_vars

\* The scenario board: 3 x 3, Orthogonal, one mine.
InitScenario ==
    /\ width = 3
    /\ height = 3
    /\ num_mines = 1
    /\ variant = "Orthogonal"
    /\ mines = {}
    /\ open_squares = {}
    /\ flagged_squares = {}
    /\ all_squares = {}
    /\ state = "None"
    /\ pc = "new"
    /\ stack = <<>>
    /\ move = NoMove
    /\ call = NoCall
    /\ screen = <<>>

SpecScenario == InitScenario /\ [][Next]_vars

\* Minesweeper::new on its own, with a fair random_range: while the loop
\* runs, every position of the board that is not a mine yet is drawn sooner
\* or later, and a loop whose condition is false is left.
NextNew == NewSample \/ NewDone

FairNew ==
    /\ \A mine \in Grid(MaxWidth, MaxHeight) :
          WF_vars(mine \in Grid(width, height) /\ NewSampleOf(mine))
    /\ WF_vars(NewDone)

SpecNew == Init /\ [][NextNew]_vars /\ FairNew

----------------------------------------------------------------------------
(* get_move_pos(): what the player types, as the list of its characters     *)
(* after trim().                                                            *)

\* Bound of the model: lines of at most MaxRawLen characters (and the word
\* quit).
MaxRawLen == 2

Digits == <<"0", "1", "2", "3", "4", "5">>

Chars == {Digits[i] : i \in 1 .. Len(Digits)} \cup {"+", "-", "q", "Q", "x"}

RawInputs ==
    UNION {[1 .. n -> Chars] : n \in 1 .. MaxRawLen}
        \cup {<<"q", "u", "i", "t">>, <<"Q", "U", "i", "T">>}

IsDigit(c) == \E i \in 1 .. Len(Digits) : Digits[i] = c

DigitValue(c) == (CHOOSE i \in 1 .. Len(Digits) : Digits[i] = c) - 1

RECURSIVE DecimalValue(_)
DecimalValue(ds) ==
    IF ds = <<>> THEN 0
    ELSE 10 * DecimalValue(SubSeq(ds, 1, Len(ds) - 1)) + DigitValue(ds[Len(ds)])

\* raw.parse::<usize>(): an optional + sign, then one or more decimal digits.
\* (No line of the model is long enough to overflow usize.)
parse(raw) ==
    LET ds == IF raw[1] = "+" THEN Tail(raw) ELSE raw
    IN  IF ds # <<>> /\ \A i \in 1 .. Len(ds) : IsDigit(ds[i])
        THEN [ok |-> TRUE, n |-> DecimalValue(ds)]
        ELSE [ok |-> FALSE]

to_lowercase(raw) ==
    [i \in 1 .. Len(raw) |->
        CASE raw[i] = "Q" -> "q"
          [] raw[i] = "U" -> "u"
          [] raw[i] = "T" -> "t"
          [] OTHER -> raw[i]]

MoveValidationError == [kind |-> "Err"]

Exit == [kind |-> "Exit"]

\* Variant of validate_move_pos: the parsed number is returned as it is.
validate_move_pos_one_based(raw, bound) ==
    LET parse_result == parse(raw)
    IN  IF parse_result.ok /\ parse_result.n \in 1 .. bound
        THEN [kind |-> "Ok", v |-> parse_result.n]
        ELSE IF ~parse_result.ok
        THEN IF to_lowercase(raw) \in {<<"q">>, <<"q", "u", "i", "t">>}
             THEN Exit
             ELSE MoveValidationError
        ELSE MoveValidationError

\* validate_move_pos(): Ok(parsed_move - 1), the error, or the end of the
\* process on a quit instruction.
validate_move_pos(raw, bound) ==
    LET parse_result == parse(raw)
    IN  IF parse_result.ok /\ parse_result.n \in 1 .. bound
        THEN [kind |-> "Ok", v |-> parse_result.n - 1]
        ELSE IF ~parse_result.ok
        THEN IF to_lowercase(raw) \in {<<"q">>, <<"q", "u", "i", "t">>}
             THEN Exit
             ELSE MoveValidationError
        ELSE MoveValidationError

\* The play loop asks for a move on a board as new() returns it for
\* num_mines = 0.
InitInput ==
    /\ width \in 1 .. MaxWidth
    /\ height \in 1 .. MaxHeight
    /\ num_mines = 0
    /\ variant = "Normal"
    /\ mines = {}
    /\ open_squares = {}
    /\ flagged_squares = {}
    /\ all_squares = Grid(width, height)
    /\ state = "Playing"
    /\ pc = "get_x"
    /\ stack = <<>>
    /\ move = NoMove
    /\ call = NoCall
    /\ screen = fmt(Board({}, {}, {}, "Playing"))

\* get_move_pos(): the x line is read and validated against the width.
GetMoveX ==
    /\ pc = "get_x"
    /\ \E raw \in RawInputs :
          LET ret == validate_move_pos(raw, width)
          IN  /\ call' = [fn |-> "validate_move_pos", raw |-> raw,
                          bound |-> width, ret |-> ret]
              /\ pc' = IF ret = Exit THEN "exit" ELSE "let_x"
    /\ UNCHANGED <<screen, width, height, num_mines, variant, mines, open_squares,
                   flagged_squares, all_squares, state, stack, move>>

\* get_move_pos(): the result is bound to move_x.
LetMoveX ==
    /\ pc = "let_x"
    /\ call' = [fn |-> "get_move_pos", move_x |-> call.ret]
    /\ pc' = "get_y"
    /\ UNCHANGED <<screen, width, height, num_mines, variant, mines, open_squares,
                   flagged_squares, all_squares, state, stack, move>>

\* get_move_pos(): the y line is read and validated against the height.
GetMoveY ==
    /\ pc = "get_y"
    /\ \E raw \in RawInputs :
          LET ret == validate_move_pos(raw, height)
          IN  /\ call' = [fn |-> "validate_move_pos", raw |-> raw,
                          bound |-> height, ret |-> ret,
                          move_x |-> call.move_x]
              /\ pc' = IF ret = Exit THEN "exit" ELSE "let_y"
    /\ UNCHANGED <<screen, width, height, num_mines, variant, mines, open_squares,
                   flagged_squares, all_squares, state, stack, move>>

\* get_move_pos(): (x, y) is returned if both results are Ok, and
\* get_move_pos() starts again otherwise.
GetMovePosReturn ==
    /\ pc = "let_y"
    /\ LET move_x == call.move_x
           move_y == call.ret
       IN  IF move_x.kind = "Ok" /\ move_y.kind = "Ok"
           THEN /\ pc' = "got_pos"
                /\ move' = [NoMove EXCEPT !.pos = <<move_x.v, move_y.v>>]
           ELSE pc' = "get_x" /\ move' = move
    /\ call' = NoCall
    /\ UNCHANGED <<screen, width, height, num_mines, variant, mines, open_squares,
                   flagged_squares, all_squares, state, stack>>

\* get_move_type(), then play() calls open or flag with the position.
GetMoveType ==
    /\ pc = "got_pos"
    /\ \E type \in {"Open", "Flag"} :
          move' = [move EXCEPT !.type = type]
    /\ pc' = "called"
    /\ UNCHANGED <<screen, width, height, num_mines, variant, mines, open_squares,
                   flagged_squares, all_squares, state, stack, call>>

NextInput ==
    GetMoveX \/ LetMoveX \/ GetMoveY \/ GetMovePosReturn \/ GetMoveType

SpecInput == InitInput /\ [][NextInput]_vars

\* neighbors() on its own: boards up to MaxSide by MaxSide, every variant,
\* every cell. The board is the one new() returns for num_mines = 0.
MaxSide == 5

InitGeometry ==
    /\ width \in 1 .. MaxSide
    /\ height \in 1 .. MaxSide
    /\ num_mines = 0
    /\ variant \in Variants
    /\ mines = {}
    /\ open_squares = {}
    /\ flagged_squares = {}
    /\ all_squares = Grid(width, height)
    /\ state = "Playing"
    /\ pc = "play"
    /\ stack = <<>>
    /\ move = NoMove
    /\ call = NoCall
    /\ screen = fmt(Board({}, {}, {}, "Playing"))

CallNeighbors ==
    /\ pc = "play"
    /\ \E p \in all_squares :
          call' = [fn |-> "neighbors", x |-> p[1], y |-> p[2],
                   ret |-> neighbors(p[1], p[2])]
    /\ UNCHANGED <<screen, width, height, num_mines, variant, mines, open_squares,
                   flagged_squares, all_squares, state, pc, stack, move>>

NextGeometry == CallNeighbors

SpecGeometry == InitGeometry /\ [][NextGeometry]_vars

----------------------------------------------------------------------------
(* Properties *)

\* The set of the entries of neighbors(p[1], p[2]).
NeighborSet(p) ==
    LET ns == neighbors(p[1], p[2]) IN {ns[i] : i \in 1 .. Len(ns)}

\* open_squares \cup mines is the whole board.
Covered == open_squares \cup mines = all_squares

\* An Open move has returned and determine_win() has not run yet.
OpenReturned == pc = "check" /\ move.type = "Open"

\* C1: in every reachable state, Lost ones included, no mine is in the open
\* set.
C1_NoMineIsOpen == open_squares \cap mines = {}

\* An Open move on an unflagged mine has lost a game with squares open.
C1_Witness ==
    /\ OpenReturned
    /\ state = "Lost"
    /\ move.pos \in mines
    /\ open_squares # {}

\* C2: in every reachable state, inside cascades too, no position is both
\* open and flagged.
C2_OpenFlaggedDisjoint == open_squares \cap flagged_squares = {}

\* A cascade has opened a zero-count square next to a flagged square.
C2_Witness ==
    /\ OpenReturned
    /\ \E c \in open_squares \ move.open_before :
          /\ mines_near(c[1], c[2]) = 0
          /\ NeighborSet(c) \cap flagged_squares # {}

\* C3: the game state starts as Playing and changes only from Playing to Lost
\* or from Playing to Won; Won and Lost never change again.
C3_TerminalStatesAbsorbing ==
    [][/\ state = "None" => state' \in {"None", "Playing"}
       /\ state = "Playing" => state' \in {"Playing", "Won", "Lost"}
       /\ state \in {"Won", "Lost"} => state' = state]_vars

\* C4: in the initial state of the game and whenever the loop is between
\* moves or has exited, the state is Won exactly when open_squares and mines
\* cover the board.
C4_WonIffCovered ==
    pc \in {"play", "done"} => (state = "Won" <=> Covered)

\* C5: determine_win() sets the state to Won exactly when open_squares and
\* mines cover the board and the state is Playing, leaves a Lost or Won state
\* as it is, and never changes open_squares, flagged_squares or mines.
C5_DetermineWinOnlyWhilePlaying ==
    [][(pc = "check" /\ pc' = "play") =>
          /\ state' = IF state = "Playing" /\ Covered THEN "Won" ELSE state
          /\ UNCHANGED <<open_squares, flagged_squares, mines>>]_vars

\* C6: Open on a mine that is neither open nor flagged sets the state to Lost,
\* leaves open_squares, flagged_squares and mines as they were and starts no
\* cascade.
C6_OpenMineOnlyLoses ==
    [][(/\ pc = "play"
        /\ move'.type = "Open"
        /\ move'.pos \in mines
        /\ move'.pos \notin open_squares
        /\ move'.pos \notin flagged_squares) =>
          /\ state' = "Lost"
          /\ pc' = "check"
          /\ UNCHANGED <<open_squares, flagged_squares, mines>>]_vars

\* Open has returned from an unflagged mine, with other squares open and
\* others flagged.
C6_Witness ==
    /\ OpenReturned
    /\ move.pos \in mines
    /\ ~move.was_flagged
    /\ move.pos \notin move.open_before
    /\ open_squares # {}
    /\ flagged_squares # {}

\* The square has no mine among its neighbour-list entries.
ZeroCount(c) == mines_near(c[1], c[2]) = 0

\* S with everything reachable from it by neighbour steps out of zero-count
\* squares: the zero-count squares of the chain and their neighbours.
RECURSIVE ZeroChain(_)
ZeroChain(S) ==
    LET T == S \cup {n \in all_squares :
                       \E c \in S : ZeroCount(c) /\ n \in NeighborSet(c)}
    IN  IF T = S THEN S ELSE ZeroChain(T)

\* The square was neither open nor flagged when the current move started.
Fresh(n) == n \notin move.open_before /\ n \notin flagged_squares

\* As ZeroChain, through squares that were neither open nor flagged.
RECURSIVE FreshChain(_)
FreshChain(S) ==
    LET T == S \cup {n \in all_squares :
                       /\ Fresh(n)
                       /\ \E c \in S : ZeroCount(c) /\ n \in NeighborSet(c)}
    IN  IF T = S THEN S ELSE FreshChain(T)

\* The fresh chain of the current move's position.
FreshRegion == FreshChain(IF Fresh(move.pos) THEN {move.pos} ELSE {})

\* C7 as stated: after Open on a non-mine position, whatever is flagged or
\* already open, every square reachable from it through zero-count squares,
\* and every neighbour of such a zero-count square, is open.
C7_CascadeOpensZeroRegion ==
    (OpenReturned /\ move.pos \notin mines) =>
        ZeroChain({move.pos}) \subseteq open_squares

\* C7, amended: after Open on a non-mine position that was neither open nor
\* flagged, every square reachable from it through zero-count squares that
\* were neither open nor flagged when Open was called, and every unflagged
\* neighbour of such a zero-count square, is open.
C7_CascadeOpensFreshRegion ==
    (OpenReturned /\ move.pos \notin mines) =>
        /\ FreshRegion \subseteq open_squares
        /\ \A c \in FreshRegion :
              ZeroCount(c) =>
                  NeighborSet(c) \ flagged_squares \subseteq open_squares

\* A cascade over at least three squares has returned on a board that had
\* open squares already, past a flagged neighbour of one of its zero-count
\* squares.
C7_Witness ==
    /\ OpenReturned
    /\ move.pos \notin mines
    /\ Fresh(move.pos)
    /\ move.open_before # {}
    /\ Cardinality(FreshRegion) >= 3
    /\ \E c \in FreshRegion :
          ZeroCount(c) /\ NeighborSet(c) \cap flagged_squares # {}

\* Open((0,0)) has returned on the 3 x 3 Orthogonal board whose only mine is
\* (1,1), where nothing was open or flagged.
C8_CornerOpened ==
    /\ width = 3
    /\ height = 3
    /\ variant = "Orthogonal"
    /\ mines = {<<1, 1>>}
    /\ OpenReturned
    /\ move.pos = <<0, 0>>
    /\ move.open_before = {}
    /\ flagged_squares = {}

\* C8 as stated: on that board Open((0,0)) leaves the 8 non-mine squares
\* open, and the determine_win() that follows sets the state to Won.
C8_CornerCascadeWins ==
    [][C8_CornerOpened =>
          /\ open_squares = Grid(3, 3) \ {<<1, 1>>}
          /\ state' = "Won"]_vars

\* C8, amended: on that board Open((0,0)) leaves exactly (0,0), (1,0) and
\* (0,1) open (the cascade stops at the edge squares, which count the mine),
\* and the determine_win() that follows leaves the state Playing.
C8_CornerCascadeStopsAtEdges ==
    [][C8_CornerOpened =>
          /\ open_squares = {<<0, 0>>, <<1, 0>>, <<0, 1>>}
          /\ state' = "Playing"]_vars

\* The scenario has happened: the corner was opened and its cascade is over.
C8_Witness ==
    /\ C8_CornerOpened
    /\ <<0, 0>> \in open_squares
    /\ mines_near(1, 0) = 1
    /\ mines_near(0, 1) = 1

\* C9: Open on a position that is already open changes neither the state nor
\* open_squares nor flagged_squares and starts no cascade.
C9_OpenOnOpenIsNoOp ==
    [][(/\ pc = "play"
        /\ move'.type = "Open"
        /\ move'.pos \in open_squares) =>
          /\ pc' = "check"
          /\ UNCHANGED <<state, open_squares, flagged_squares>>]_vars

\* Open has returned from an already open zero-count square that has a
\* neighbour which is neither open nor flagged.
C9_Witness ==
    /\ OpenReturned
    /\ move.pos \in move.open_before
    /\ ZeroCount(move.pos)
    /\ NeighborSet(move.pos) \ (open_squares \cup flagged_squares) # {}

\* C10: Open on a flagged position, mine or not, changes neither the state nor
\* open_squares nor flagged_squares; and no step of an Open, cascade included,
\* opens a flagged square or changes flagged_squares.
C10_OpenOnFlaggedIsNoOp ==
    [][/\ (/\ pc = "play"
           /\ move'.type = "Open"
           /\ move'.pos \in flagged_squares) =>
             /\ pc' = "check"
             /\ UNCHANGED <<state, open_squares, flagged_squares>>
       /\ (pc \in {"play", "open"} /\ move'.type = "Open") =>
             /\ flagged_squares' = flagged_squares
             /\ open_squares' \cap flagged_squares
                   = open_squares \cap flagged_squares]_vars

\* Open has returned from a flagged mine and the game is still being played.
C10_Witness ==
    /\ OpenReturned
    /\ move.was_flagged
    /\ move.pos \in mines
    /\ move.pos \in flagged_squares
    /\ state = "Playing"

\* A Flag move has returned and determine_win() has not run yet.
FlagReturned == pc = "check" /\ move.type = "Flag"

Abs(n) == IF n < 0 THEN -n ELSE n

\* The number of times the offset (dx, dy) is listed for variant v in the
\* table of neighbour offsets.
table_count(v, dx, dy) ==
    LET ax == Abs(dx)
        ay == Abs(dy)
        unit == ax <= 1 /\ ay <= 1 /\ <<dx, dy>> # <<0, 0>>
    IN  CASE v = "Normal" -> IF unit THEN 1 ELSE 0
          [] v = "FarNormal" ->
                IF ax <= 2 /\ ay <= 2 /\ <<dx, dy>> # <<0, 0>> THEN 1 ELSE 0
          [] v = "KnightPaths" -> IF {ax, ay} = {1, 2} THEN 1 ELSE 0
          [] v = "BlindUp" -> IF unit /\ <<dx, dy>> # <<0, -1>> THEN 1 ELSE 0
          [] v = "BlindDown" -> IF unit /\ <<dx, dy>> # <<0, 1>> THEN 1 ELSE 0
          [] v = "BlindLeft" -> IF unit /\ <<dx, dy>> # <<-1, 0>> THEN 1 ELSE 0
          [] v = "BlindRight" -> IF unit /\ <<dx, dy>> # <<1, 0>> THEN 1 ELSE 0
          [] v = "Orthogonal" -> IF ax + ay = 1 THEN 1 ELSE 0
          [] v = "FarOrthogonal" ->
                IF (ax = 0 /\ ay \in {1, 2}) \/ (ay = 0 /\ ax \in {1, 2})
                THEN 1 ELSE 0
          [] v = "Diagonal" -> IF ax = 1 /\ ay = 1 THEN 1 ELSE 0
          [] v = "FarDiagonal" -> IF ax = ay /\ ax \in {1, 2} THEN 1 ELSE 0
          [] v = "Doubled" ->
                IF ax + ay = 1 THEN 2 ELSE IF ax = 1 /\ ay = 1 THEN 1 ELSE 0

\* The number of entries of the list ns that are e.
CountIn(ns, e) == Cardinality({i \in 1 .. Len(ns) : ns[i] = e})

\* C12: for every variant and every cell, neighbors(x, y) is, as a multiset,
\* the table's offsets for the variant applied to (x, y) with the positions
\* outside the board dropped; a cell is never its own neighbour and every
\* neighbour is inside the board.
C12_NeighborsMatchTable ==
    call.fn = "neighbors" =>
        /\ \A i \in 1 .. Len(call.ret) : call.ret[i] \in Grid(width, height)
        /\ \A n \in Grid(width, height) :
              CountIn(call.ret, n) =
                  table_count(variant, n[1] - call.x, n[2] - call.y)
        /\ CountIn(call.ret, <<call.x, call.y>>) = 0

\* The mines at an orthogonal unit offset from c, and those at a diagonal one.
OrthogonalMines(c) ==
    {m \in mines : Abs(m[1] - c[1]) + Abs(m[2] - c[2]) = 1}

DiagonalMines(c) ==
    {m \in mines : Abs(m[1] - c[1]) = 1 /\ Abs(m[2] - c[2]) = 1}

\* C13: mines_near counts with multiplicity. Under Doubled it is twice the
\* number of orthogonally adjacent mines plus the number of diagonally
\* adjacent mines; under every other variant each neighbouring position that
\* is a mine counts exactly once. Stated for every cell of the board each
\* time the play loop is at its head.
C13_MinesNearCountsEntries ==
    pc = "play" =>
        \A c \in all_squares :
            IF variant = "Doubled"
            THEN mines_near(c[1], c[2]) =
                     2 * Cardinality(OrthogonalMines(c))
                         + Cardinality(DiagonalMines(c))
            ELSE mines_near(c[1], c[2]) =
                     Cardinality(NeighborSet(c) \cap mines)

\* Under Doubled, an opened cell with one orthogonally adjacent mine and no
\* diagonally adjacent one has the count 2.
C13_Witness ==
    /\ pc = "play"
    /\ variant = "Doubled"
    /\ \E c \in open_squares :
          /\ Cardinality(OrthogonalMines(c)) = 1
          /\ DiagonalMines(c) = {}
          /\ mines_near(c[1], c[2]) = 2

\* C14: when the construction ends, mines holds exactly num_mines distinct
\* positions, all inside the board, open_squares and flagged_squares are
\* empty and the state is Playing; from then on the mine set never changes.
C14_ConstructionResult ==
    [][/\ (pc = "new" /\ pc' # "new") =>
              /\ Cardinality(mines') = num_mines
              /\ mines' \subseteq Grid(width, height)
              /\ open_squares' = {}
              /\ flagged_squares' = {}
              /\ state' = "Playing"
       /\ pc # "new" => mines' = mines]_vars

\* A game in progress, with squares opened and flagged, on a board
\* constructed with two mines.
C14_Witness ==
    /\ pc = "play"
    /\ num_mines = 2
    /\ Cardinality(mines) = 2
    /\ open_squares # {}
    /\ flagged_squares # {}

\* C15: the construction does not end when num_mines >= width * height, and
\* ends, under fair sampling, when num_mines < width * height.
C15_EndsIffFewerMinesThanCells ==
    /\ [](num_mines >= width * height => pc = "new")
    /\ (num_mines < width * height) ~> (pc # "new")

\* C15, amended: the construction does not end when num_mines is greater
\* than width * height, and ends, under fair sampling, when num_mines is at
\* most width * height.
C15_EndsIffMinesFitBoard ==
    /\ [](num_mines > width * height => pc = "new")
    /\ (num_mines <= width * height) ~> (pc # "new")

\* The construction has ended on a board where every cell is a mine.
C15_Witness ==
    /\ pc = "play"
    /\ num_mines = width * height
    /\ mines = Grid(width, height)

\* C16: the open set only grows: no step of the game (Open, each step of its
\* cascade, Flag, determine_win) removes a position from open_squares.
C16_OpenSetGrows == [][open_squares \subseteq open_squares']_vars

\* An Open has added squares to a board that had open squares and has a flag.
C16_Witness ==
    /\ OpenReturned
    /\ move.open_before # {}
    /\ move.open_before # open_squares
    /\ flagged_squares # {}

\* What C17 says validate_move_pos returns for the call c: Ok(n - 1), inside
\* 0 .. bound - 1, exactly when the line parses to a number n of 1 .. bound,
\* and the error for every other line that is not a quit instruction.
ValidatedAsClaimed(c) ==
    LET p == parse(c.raw)
        in_range == p.ok /\ 1 <= p.n /\ p.n <= c.bound
        quit == ~p.ok /\ to_lowercase(c.raw) \in {<<"q">>, <<"q", "u", "i", "t">>}
    IN  /\ c.ret.kind = "Ok" =>
              /\ in_range
              /\ c.ret.v = p.n - 1
              /\ 0 <= c.ret.v /\ c.ret.v < c.bound
        /\ (~in_range /\ ~quit) => c.ret = MoveValidationError

\* C17: validate_move_pos(raw, bound) returns Ok(v) only when raw parses to a
\* number n with 1 <= n <= bound, and then v = n - 1, 0 <= v < bound; every
\* other line that is not a quit instruction gives the error, on which
\* get_move_pos asks again; so open and flag are never called with x >= width
\* or y >= height.
C17_MovePositionValidated ==
    [][/\ call'.fn = "validate_move_pos" => ValidatedAsClaimed(call')
       /\ pc = "let_y" =>
              IF call.move_x.kind = "Ok" /\ call.ret.kind = "Ok"
              THEN pc' = "got_pos"
              ELSE pc' = "get_x"
       /\ pc' = "called" =>
              /\ move'.pos[1] < width /\ move'.pos[2] < height
              /\ move'.pos \in Grid(width, height)]_vars

\* Open or Flag is called with the last column and the last row of a board
\* with more than one column and more than one row.
C17_Witness ==
    /\ pc = "called"
    /\ width > 1 /\ height > 1
    /\ move.pos = <<width - 1, height - 1>>

\* The calls of open() that the for loops of the activations in st have
\* still to make.
RECURSIVE Remaining(_)
Remaining(st) ==
    IF st = <<>> THEN 0
    ELSE LET top == st[Len(st)]
         IN  Remaining(SubSeq(st, 1, Len(st) - 1))
                 + (Len(neighbors(top.x, top.y)) + 1 - top.i)

\* The step inserts one position that was not open.
InsertsFresh ==
    \E p \in all_squares \ open_squares : open_squares' = open_squares \cup {p}

\* The activations of open() in progress are on pairwise distinct squares,
\* all of them open.
FramesDistinct ==
    /\ \A i \in 1 .. Len(stack) : <<stack[i].x, stack[i].y>> \in open_squares
    /\ \A i, j \in 1 .. Len(stack) :
          (stack[i].x = stack[j].x /\ stack[i].y = stack[j].y) => i = j

\* C18: the cascade ends on every board and for every variant. Each call of
\* open() either returns at once, leaving open_squares as it is and one call
\* less to make, or inserts a position that was not open; so at most
\* width * height calls insert, no position is inserted twice, and the
\* recursion is never deeper than the number of open squares.
C18_CascadeTerminates ==
    [][/\ (pc = "play" /\ move'.type = "Open") =>
              (UNCHANGED open_squares \/ InsertsFresh)
       /\ pc = "open" =>
              \/ InsertsFresh
              \/ UNCHANGED open_squares /\ Remaining(stack') < Remaining(stack)
       /\ pc' = "open" => FramesDistinct']_vars

\* One Open has inserted at least four squares.
C18_Witness ==
    /\ OpenReturned
    /\ Cardinality(open_squares \ move.open_before) >= 4

\* The entries of the list ns that are not open in g and not in the list
\* pending, each once, in the order of ns.
RECURSIVE ToVisit(_, _, _)
ToVisit(ns, g, pending) ==
    IF ns = <<>> THEN <<>>
    ELSE LET n == Head(ns)
             skip == \/ n \in g.open_squares
                     \/ \E i \in 1 .. Len(pending) : pending[i] = n
         IN  IF skip THEN ToVisit(Tail(ns), g, pending)
             ELSE <<n>> \o ToVisit(Tail(ns), g, Append(pending, n))

\* A cascade with an explicit work list instead of recursion: pending is the
\* list of the positions still to visit, taken from its end if lifo (a
\* stack) and from its front otherwise (a queue). A position is visited as
\* open() visits it: nothing for an open or a flagged one, Lost for a mine,
\* otherwise it is inserted and, if no mine is near, its neighbours that are
\* not open join the list.
RECURSIVE work_list(_, _, _)
work_list(g, pending, lifo) ==
    IF pending = <<>> THEN g
    ELSE LET p == IF lifo THEN pending[Len(pending)] ELSE Head(pending)
             rest == IF lifo THEN SubSeq(pending, 1, Len(pending) - 1)
                     ELSE Tail(pending)
         IN  IF p \in g.open_squares \/ p \in flagged_squares
             THEN work_list(g, rest, lifo)
             ELSE IF p \in mines
             THEN work_list([g EXCEPT !.state = "Lost"], rest, lifo)
             ELSE LET g1 == [g EXCEPT !.open_squares = @ \cup {p}]
                  IN  IF mines_near(p[1], p[2]) = 0
                      THEN work_list(g1,
                               rest \o ToVisit(neighbors(p[1], p[2]), g1, rest),
                               lifo)
                      ELSE work_list(g1, rest, lifo)

\* What the recursive open() has left is what the work-list cascade leaves,
\* with a stack and with a queue, started on the board as it was.
WorkListAgrees ==
    LET before == [open_squares |-> move.open_before, state |-> "Playing"]
        after == [open_squares |-> open_squares, state |-> state]
    IN  \A lifo \in BOOLEAN : work_list(before, <<move.pos>>, lifo) = after

\* C19: the result of Open(pos) does not depend on the order of the
\* traversal: from every board, the recursive depth-first cascade leaves the
\* open set and the state that a work-list cascade leaves, with a stack or
\* with a queue, and like it leaves the flagged set as it was.
C19_CascadeOrderIndependent ==
    /\ [](OpenReturned => WorkListAgrees)
    /\ [][(pc = "open" \/ move'.type = "Open") =>
              UNCHANGED flagged_squares]_vars

\* An Open has cascaded around a flag and a mine on a board with open
\* squares.
C19_Witness ==
    /\ OpenReturned
    /\ Cardinality(open_squares \ move.open_before) >= 3
    /\ move.open_before # {}
    /\ flagged_squares # {}
    /\ mines # {}

\* The position of the next recursive call of the cascade in progress.
Callee ==
    LET top == stack[Len(stack)] IN neighbors(top.x, top.y)[top.i]

\* C20: only the targeted cell can cause a loss. The cascade never calls
\* open() on a mine and never changes the state, for every variant; so when
\* Open(pos) is called on a position that is not a mine, the state is the
\* same when it returns.
C20_OnlyTargetCanLose ==
    [][/\ pc = "open" => (Callee \notin mines /\ state' = state)
       /\ (pc = "play" /\ move'.type = "Open" /\ move'.pos \notin mines) =>
              state' = state
       /\ (pc' = "check" /\ move'.type = "Open" /\ move'.pos \notin mines) =>
              state' = "Playing"]_vars

\* Under BlindUp, an Open on a cell right below a mine has cascaded and the
\* game goes on.
C20_Witness ==
    /\ OpenReturned
    /\ variant = "BlindUp"
    /\ <<move.pos[1], move.pos[2] - 1>> \in mines
    /\ Cardinality(open_squares \ move.open_before) >= 2
    /\ state = "Playing"

\* The loop of play() is at its head and goes on: the screen shows the board
\* as the player sees it when asked for a move (determine_win() has left
\* the state as it was when the board was displayed).
AwaitingMove == pc = "play" /\ state = "Playing"

\* The screen shows the board as it is: it has just been displayed, or the
\* player is asked for a move.
Displayed == pc = "check" \/ AwaitingMove

\* The mine sets of the boards of the model that have the open squares of
\* this one, none of them a mine, and its mines_near value on every open
\* square.
AltMines ==
    {ms \in SUBSET (all_squares \ open_squares) :
        /\ Cardinality(ms) <= MaxMines
        /\ \A c \in open_squares :
              mines_near_of(ms, c[1], c[2]) = mines_near(c[1], c[2])}

\* What is displayed for the square p.
Shown(p) == screen[p[2]][p[1]]

\* C21: while the state is not Lost the displayed board shows nothing of the
\* mines beyond the counts of the open squares. Every time the board is
\* displayed in a state other than Lost, a square shows F if it is flagged,
\* the count or a blank if it is open and . otherwise, mines included; so
\* every board with the same width, height, variant, open set and flagged
\* set and the same mines_near value on every open square, whatever its
\* mines, is displayed the same, which is checked for every board the
\* player is asked to move on. # is displayed only when the state is Lost,
\* and then for the mines, flagged or not.
C21_DisplayHidesMines ==
    /\ AwaitingMove =>
          \A ms \in AltMines : \A s \in GameStates \ {"Lost"} :
              fmt(Board(ms, open_squares, flagged_squares, s)) = screen
    /\ (Displayed /\ state # "Lost") =>
          \A p \in all_squares :
              Shown(p) =
                  IF p \in flagged_squares THEN <<"F", " ">>
                  ELSE IF p \in open_squares
                  THEN IF mines_near(p[1], p[2]) > 0
                       THEN Append(to_string(mines_near(p[1], p[2])), " ")
                       ELSE <<" ", " ">>
                  ELSE <<".", " ">>
    /\ Displayed =>
          \A p \in all_squares :
              Shown(p) = <<"#", " ">> <=> (state = "Lost" /\ p \in mines)

\* A board in play is displayed with a flag, a count and a closed mine, and
\* another mine set would give the same counts.
C21_Witness ==
    /\ AwaitingMove
    /\ flagged_squares # {}
    /\ \E c \in open_squares : mines_near(c[1], c[2]) > 0
    /\ \E m \in mines : m \notin flagged_squares /\ Shown(m) = <<".", " ">>
    /\ AltMines \ {mines} # {}

====
